---- MODULE Spec2Model ----
(***************************************************************************)
(* Model of the screenshot endpoint (src/src/app/api/screenshot/route.ts): *)
(* the POST handler, which walks the posted website list one website at a  *)
(* time and, for each, awaits checkWebsiteStatus, getSSLCertificateInfo    *)
(* and takeScreenshot before it reconciles the three outcomes into one     *)
(* ScreenshotResult.                                                       *)
(*                                                                         *)
(* What the remote side does (the HTTP answer, the TLS handshake, the      *)
(* browser) is fixed per website in the variable world when a request      *)
(* arrives; the handler's steps read it.  Optional values (a field that    *)
(* may be undefined) are sequences of length 0 or 1.  Strings whose length *)
(* matters are sequences of one-character strings.  Times are integers in  *)
(* milliseconds.                                                           *)
(***************************************************************************)
EXTENDS Integers, Sequences, FiniteSets, TLC

VARIABLES
    body,         \* the posted request body
    world,        \* per list position: what the remote side will do
    clock,        \* wall clock, ms (Date.now())
    pc,           \* position of the POST handler
    idx,          \* position of the for-of loop in websites (1-based)
    results,      \* const results: ScreenshotResult[]
    startTime,    \* checkWebsiteStatus: const startTime
    statusCheck,  \* POST: const statusCheck
    sslInfo,      \* POST: const sslInfo
    ret,          \* takeScreenshot: the value its try/catch decided to return
    shot,         \* POST: let screenshot_path
    live,         \* browser processes launched and not yet closed
    hist,         \* the calls started so far, oldest first
    seen,         \* per list position: what each call returned, once it has
    response,     \* the HTTP response sent
    files,        \* the names written into the screenshots directory, in order
    peer,         \* a capture of another request served at the same time
    run,          \* how many times the batch has been posted: 1 or 2
    first,        \* the response to, and the returns of, the first run
    browsers,     \* the browser instances launched so far, oldest first
    promise,      \* the promise of the certificate inspection started last
    page          \* the state of the screenshots page (page.tsx)

vars == <<body, world, clock, pc, idx, results, startTime, statusCheck,
          sslInfo, ret, shot, live, hist, seen, response, files, peer, run,
          first, browsers, promise, page>>

----------------------------------------------------------------------------
(* Bounds of the model *)

\* Longest website list of a batch.
MaxSites == 2
\* Most socket events after the one that settled an inspection.
MaxLate == 2
\* Most runs of generateScreenshots on the page.
MaxRuns == 2
\* Largest website id.
MaxId == 2
\* How far a transport failure's description may exceed the length limit.
MaxOver == 1

----------------------------------------------------------------------------
(* Program constants *)

\* route.ts:58  1000 * 60 * 60 * 24
DayMs == 1000 * 60 * 60 * 24
\* route.ts:93  setTimeout(() => controller.abort(), 30000)
FetchTimeoutMs == 30000
\* route.ts:73  socket.setTimeout(5000, ...)
IdleTimeoutMs == 5000
\* route.ts:161 page.waitForTimeout(2000)
SettleMs == 2000
\* route.ts:119 error.message.substring(0, 100)
ErrLimit == 100

----------------------------------------------------------------------------
(* Values *)

None == <<>>
Some(x) == <<x>>
IsSome(o) == Len(o) = 1
Get(o) == o[1]

Min(a, b) == IF a <= b THEN a ELSE b

\* 'Connection failed' (route.ts:115)
ConnectionFailed ==
    <<"C","o","n","n","e","c","t","i","o","n"," ","f","a","i","l","e","d">>
\* 'Request timeout' (route.ts:117)
RequestTimeout ==
    <<"R","e","q","u","e","s","t"," ","t","i","m","e","o","u","t">>
\* A failure description of n characters.
Text(n) == [i \in 1..n |-> "x"]

\* String.prototype.substring(0, n)
Substring0(s, n) == SubSeq(s, 1, Min(n, Len(s)))

\* A faulty StartsWithHttps: url.startsWith('http').
StartsWithHttp(url) == url.scheme \in {"https://", "http://"}

\* url.startsWith('https://') (route.ts:35, 109, 220). A URL is its scheme
\* prefix and the rest; an empty rest is a URL that new URL() rejects.
StartsWithHttps(url) == url.scheme = "https://"
UrlParses(url) == url.rest # ""

\* Date.prototype.toISOString().split('T')[0]: the UTC calendar day.
IsoDate(t) == t \div DayMs

NoWebsite == [isNull |-> TRUE, id |-> 0, url |-> [scheme |-> "", rest |-> ""]]
Website(i, u) == [isNull |-> FALSE, id |-> i, url |-> u]

Urls ==
    { [scheme |-> "https://", rest |-> "a.example"],
      [scheme |-> "http://",  rest |-> "b.example"],
      [scheme |-> "https://", rest |-> ""] }

Websites == { Website(i, u) : i \in 1..MaxId, u \in Urls }

----------------------------------------------------------------------------
(* The remote side, per website *)

\* fetch(): "ok" a response with response.ok, "notok" a response without,
\* "abort" the 30 s timer aborted it, "fail" it rejected with an error whose
\* message is msg.  lat is the time the call took.
MsgLens == {0, 1, ErrLimit - 1, ErrLimit} \cup { ErrLimit + k : k \in 1..MaxOver }

ProbeWorlds ==
    { [kind |-> k, lat |-> l, msg |-> Text(0)] : k \in {"ok", "notok"}, l \in {0, 1} }
    \cup { [kind |-> "abort", lat |-> FetchTimeoutMs, msg |-> Text(0)] }
    \cup { [kind |-> "fail", lat |-> 0, msg |-> Text(n)] : n \in MsgLens }

\* tls.connect(): "error" the socket emits 'error', "timeout" it stays idle
\* for 5 s, "nocert" the handshake completes and getPeerCertificate() gives
\* nothing, "nodates" a certificate without valid_from/valid_to, "baddates"
\* one whose dates new Date() cannot parse, "cert" one valid from..to.
CertDates ==
    { <<0 - DayMs, DayMs>>, <<0 - DayMs, 0>>, <<0 - (2 * DayMs), 0 - (DayMs + 1)>>,
      <<1, DayMs>>, <<DayMs, 2 * DayMs>> }

CertWorlds ==
    { [kind |-> k, from |-> 0, to |-> 0] :
        k \in {"error", "timeout", "nocert", "nodates", "baddates"} }
    \cup { [kind |-> "cert", from |-> d[1], to |-> d[2]] : d \in CertDates }

\* The browser: "launchfail" chromium.launch() rejects, "navfail" newPage,
\* setViewportSize, goto or waitForTimeout rejects, "shotfail"
\* page.screenshot() rejects, "ok" none does.  closeOk: browser.close()
\* resolves.
CaptureWorlds ==
    { [kind |-> k, closeOk |-> c] :
        k \in {"navfail", "shotfail", "ok"}, c \in BOOLEAN }
    \cup { [kind |-> "launchfail", closeOk |-> TRUE] }

NoWorld ==
    [probe |-> [kind |-> "fail", lat |-> 0, msg |-> Text(1)],
     cert |-> [kind |-> "error", from |-> 0, to |-> 0],
     capture |-> [kind |-> "launchfail", closeOk |-> TRUE]]

\* What can happen for website w: a URL that does not parse cannot be
\* fetched or navigated to, and only an https URL reaches tls.connect().
Fits(w, x) ==
    /\ ~UrlParses(w.url) =>
          /\ x.probe.kind = "fail" /\ Len(x.probe.msg) > 0
          /\ x.capture.kind \in {"launchfail", "navfail"}
    /\ ~(StartsWithHttps(w.url) /\ UrlParses(w.url)) => x.cert = NoWorld.cert

SiteWorlds ==
    { [probe |-> p, cert |-> c, capture |-> s] :
        p \in ProbeWorlds, c \in CertWorlds, s \in CaptureWorlds }

\* The websites and worlds of the longer batches: one world per way a
\* website's three probes can end.
Healthy ==
    [probe |-> [kind |-> "ok", lat |-> 1, msg |-> Text(0)],
     cert |-> [kind |-> "cert", from |-> 0 - DayMs, to |-> DayMs],
     capture |-> [kind |-> "ok", closeOk |-> TRUE]]

Scenarios ==
    { Healthy,
      [Healthy EXCEPT !.probe = [kind |-> "fail", lat |-> 0, msg |-> Text(ErrLimit + 1)],
                      !.cert = [kind |-> "timeout", from |-> 0, to |-> 0]],
      [Healthy EXCEPT !.probe = [kind |-> "notok", lat |-> 1, msg |-> Text(0)],
                      !.cert = [kind |-> "nocert", from |-> 0, to |-> 0],
                      !.capture = [kind |-> "navfail", closeOk |-> TRUE]],
      [Healthy EXCEPT !.probe = [kind |-> "abort", lat |-> FetchTimeoutMs, msg |-> Text(0)],
                      !.cert = [kind |-> "error", from |-> 0, to |-> 0],
                      !.capture = [kind |-> "shotfail", closeOk |-> TRUE]],
      [Healthy EXCEPT !.probe = [kind |-> "fail", lat |-> 0, msg |-> Text(1)],
                      !.cert = [kind |-> "error", from |-> 0, to |-> 0],
                      !.capture = [kind |-> "launchfail", closeOk |-> TRUE]],
      [Healthy EXCEPT !.cert = [kind |-> "baddates", from |-> 0, to |-> 0]],
      [Healthy EXCEPT !.capture = [kind |-> "ok", closeOk |-> FALSE]],
      [Healthy EXCEPT !.cert = [kind |-> "cert", from |-> 0 - (2 * DayMs),
                                to |-> 0 - (DayMs + 1)]],
      [Healthy EXCEPT !.probe = [kind |-> "notok", lat |-> 0, msg |-> Text(0)],
                      !.cert = [kind |-> "nodates", from |-> 0, to |-> 0]],
      [Healthy EXCEPT !.probe = [kind |-> "fail", lat |-> 0, msg |-> Text(0)],
                      !.cert = [kind |-> "cert", from |-> DayMs, to |-> 2 * DayMs],
                      !.capture = [kind |-> "navfail", closeOk |-> FALSE]],
      [Healthy EXCEPT !.probe = [kind |-> "abort", lat |-> FetchTimeoutMs, msg |-> Text(0)],
                      !.capture = [kind |-> "shotfail", closeOk |-> FALSE]],
      [Healthy EXCEPT !.capture = [kind |-> "launchfail", closeOk |-> TRUE]],
      [Healthy EXCEPT !.cert = [kind |-> "error", from |-> 0, to |-> 0],
                      !.capture = [kind |-> "launchfail", closeOk |-> TRUE]],
      [Healthy EXCEPT !.probe = [kind |-> "fail", lat |-> 0, msg |-> Text(ErrLimit)],
                      !.capture = [kind |-> "navfail", closeOk |-> TRUE]] }

BatchWebsites ==
    { Website(1, [scheme |-> "https://", rest |-> "a.example"]),
      Website(2, [scheme |-> "http://", rest |-> "b.example"]) }

\* One position of a posted list with what will happen there; a null
\* element is never probed.
Fitted(w, x) == IF Fits(w, x) THEN x ELSE [x EXCEPT !.cert = NoWorld.cert]

Positions(ws, xs) ==
    { [site |-> w, world |-> Fitted(w, x)] : w \in ws, x \in xs }
    \cup { [site |-> NoWebsite, world |-> NoWorld] }

SitePositions ==
    UNION { { [site |-> w, world |-> x] : x \in { y \in SiteWorlds : Fits(w, y) } } :
            w \in Websites }

\* request.json() and the destructuring of { websites } (route.ts:186):
\* "badjson" the body is not JSON, "null" it is the JSON value null,
\* "nolist" it has no websites member, "falsy" websites is null, 0, "" or
\* false, "notlist" websites is any other value that is not an array,
\* "list" websites is the array items.
Body(k, items) == [kind |-> k, items |-> items]

----------------------------------------------------------------------------
(* checkWebsiteStatus (route.ts:83-129) *)

\* The value returned after a response (route.ts:107-111).
StatusOfResponse(url, ok, rt) ==
    [status |-> IF ok THEN "up" ELSE "down",
     ssl_valid |-> StartsWithHttps(url) /\ ok,
     response_time |-> Some(rt),
     error_message |-> None]

\* A faulty ErrorMessage: the description is not cut to its first 100
\* characters.
ErrorMessageUncut(name, message) ==
    IF name = "AbortError" THEN RequestTimeout
    ELSE IF message # Text(0) THEN message
    ELSE ConnectionFailed

\* A faulty ErrorMessage: the AbortError of the timer is not told apart
\* from other failures.
ErrorMessageNoAbort(name, message) ==
    IF message # Text(0) THEN Substring0(message, ErrLimit)
    ELSE ConnectionFailed

\* The catch block's message (route.ts:115-120).
ErrorMessage(name, message) ==
    IF name = "AbortError" THEN RequestTimeout
    ELSE IF message # Text(0) THEN Substring0(message, ErrLimit)
    ELSE ConnectionFailed

\* The value returned from the catch block (route.ts:122-127).
StatusOfError(name, message, rt) ==
    [status |-> "error",
     ssl_valid |-> FALSE,
     response_time |-> Some(rt),
     error_message |-> Some(ErrorMessage(name, message))]

----------------------------------------------------------------------------
(* getSSLCertificateInfo (route.ts:27-81) *)

\* { ssl_valid: false } (route.ts:36, 49, 70, 75, 79)
SslInvalid ==
    [ssl_valid |-> FALSE, ssl_expires |-> None,
     ssl_days_remaining |-> None, ssl_issued_date |-> None]

\* A faulty SslOfCert: the days are cut towards zero (Math.trunc) instead
\* of floored.
SslOfCertTruncated(now, from, to) ==
    [ssl_valid |-> now >= from /\ now <= to,
     ssl_expires |-> Some(IsoDate(to)),
     ssl_days_remaining |->
         Some(IF to >= now THEN (to - now) \div DayMs
                           ELSE 0 - ((now - to) \div DayMs)),
     ssl_issued_date |-> Some(IsoDate(from))]

\* A faulty SslOfCert: the ends of the validity window are excluded.
SslOfCertExclusive(now, from, to) ==
    [ssl_valid |-> now > from /\ now < to,
     ssl_expires |-> Some(IsoDate(to)),
     ssl_days_remaining |-> Some((to - now) \div DayMs),
     ssl_issued_date |-> Some(IsoDate(from))]

\* The value resolved for a certificate valid from..to, read at now
\* (route.ts:53-66).
SslOfCert(now, from, to) ==
    [ssl_valid |-> now >= from /\ now <= to,
     ssl_expires |-> Some(IsoDate(to)),
     ssl_days_remaining |-> Some((to - now) \div DayMs),
     ssl_issued_date |-> Some(IsoDate(from))]

----------------------------------------------------------------------------
(* takeScreenshot (route.ts:131-182) *)

\* A faulty ScreenshotPath: the name is the website id alone.
ScreenshotPathById(id, now) == [id |-> id, ts |-> 0]

\* `/screenshots/${id}_${Date.now()}.png` (route.ts:164, 173)
ScreenshotPath(id, now) == [id |-> id, ts |-> now]

----------------------------------------------------------------------------
(* POST: the reconciliation of one website (route.ts:211-235) *)

\* A faulty FinalStatus: a successful capture does not override the status.
FinalStatusOfProbe(sc, path) == sc.status

\* route.ts:212-216
FinalStatus(sc, path) ==
    IF IsSome(path) /\ sc.status # "up" THEN "up" ELSE sc.status

\* A faulty FinalSSLValid: no fallback to the capture.
FinalSSLValidOfInspector(ssl, path, url) == ssl.ssl_valid

\* A faulty FinalSSLValid: the fallback does not look at the URL's scheme.
FinalSSLValidAnyScheme(ssl, path, url) ==
    IF ~ssl.ssl_valid /\ IsSome(path) THEN TRUE ELSE ssl.ssl_valid

\* route.ts:219-222
FinalSSLValid(ssl, path, url) ==
    IF ~ssl.ssl_valid /\ IsSome(path) /\ StartsWithHttps(url)
    THEN TRUE ELSE ssl.ssl_valid

\* A faulty FinalErrorMessage: the probe's message is kept after a
\* successful capture.
FinalErrorMessageOfProbe(sc, path) == sc.error_message

\* route.ts:234
FinalErrorMessage(sc, path) ==
    IF IsSome(path) THEN None ELSE sc.error_message

\* A faulty Result: after a successful capture the response_time is
\* dropped and the days remaining are reported as 0 when the inspector
\* gave none.
ResultFabricated(website, sc, ssl, path) ==
    [id |-> website.id,
     url |-> website.url,
     screenshot_path |-> path,
     status |-> FinalStatus(sc, path),
     ssl_valid |-> FinalSSLValid(ssl, path, website.url),
     ssl_expires |-> ssl.ssl_expires,
     ssl_days_remaining |->
         IF IsSome(path) /\ ~IsSome(ssl.ssl_days_remaining)
         THEN Some(0) ELSE ssl.ssl_days_remaining,
     ssl_issued_date |-> ssl.ssl_issued_date,
     response_time |-> IF IsSome(path) THEN None ELSE sc.response_time,
     error_message |-> FinalErrorMessage(sc, path)]

\* A faulty Result: the prober's coarse ssl_valid also makes the final
\* ssl_valid true.
ResultCoarse(website, sc, ssl, path) ==
    [id |-> website.id,
     url |-> website.url,
     screenshot_path |-> path,
     status |-> FinalStatus(sc, path),
     ssl_valid |-> FinalSSLValid(ssl, path, website.url) \/ sc.ssl_valid,
     ssl_expires |-> ssl.ssl_expires,
     ssl_days_remaining |-> ssl.ssl_days_remaining,
     ssl_issued_date |-> ssl.ssl_issued_date,
     response_time |-> sc.response_time,
     error_message |-> FinalErrorMessage(sc, path)]

\* route.ts:224-235
Result(website, sc, ssl, path) ==
    [id |-> website.id,
     url |-> website.url,
     screenshot_path |-> path,
     status |-> FinalStatus(sc, path),
     ssl_valid |-> FinalSSLValid(ssl, path, website.url),
     ssl_expires |-> ssl.ssl_expires,
     ssl_days_remaining |-> ssl.ssl_days_remaining,
     ssl_issued_date |-> ssl.ssl_issued_date,
     response_time |-> sc.response_time,
     error_message |-> FinalErrorMessage(sc, path)]

\* A faulty Push: results.unshift(result).
Unshift(rs, r) == <<r>> \o rs

\* results.push(result) (route.ts:237)
Push(rs, r) == Append(rs, r)

----------------------------------------------------------------------------
(* State *)

NoStatus ==
    [status |-> "error", ssl_valid |-> FALSE,
     response_time |-> None, error_message |-> None]

NoResponse == [status |-> 0, results |-> <<>>]

\* Nothing has returned yet: probe is what checkWebsiteStatus returned, ssl
\* what getSSLCertificateInfo returned, capture what takeScreenshot
\* returned, certAt the time at which the certificate was read.
NotSeen == [probe |-> None, ssl |-> None, capture |-> None, certAt |-> None]

\* No other request has captured anything; a peer that has is
\* [written |-> TRUE, id |-> its website's id].
NoPeer == [written |-> FALSE, id |-> 0]

\* The batch has not been posted a second time.
NoFirst == [response |-> NoResponse, seen |-> <<>>]

\* No inspection has opened a socket; one that has is [site |-> its list
\* position, value |-> what its promise is settled with, if it is, settles
\* |-> how often its value was set, late |-> the socket events since].
NoPromise == [site |-> 0, value |-> None, settles |-> 0, late |-> 0]

\* resolve(v) (route.ts:49, 61, 70, 75): a promise settles once; resolve()
\* on a settled promise does nothing.
Resolve(p, v) ==
    IF IsSome(p.value) THEN p
    ELSE [p EXCEPT !.value = Some(v), !.settles = @ + 1]

\* A call started: op for list position site, when done results had been
\* pushed and the clock read at.
Event(op) == [op |-> op, site |-> idx, done |-> Len(results), at |-> clock]

\* The screenshots page after its first render (page.tsx:23-28): no
\* websites loaded, nothing displayed, not loading, no banner.  inflight
\* counts the batch requests sent and not yet answered, posted lists their
\* bodies, outcome is how the last request ended.
Mounted ==
    [at |-> "mounting", websites |-> <<>>, screenshots |-> <<>>,
     loading |-> FALSE, error |-> "", success |-> None,
     inflight |-> 0, posted |-> <<>>, outcome |-> "none"]

InitBatch ==
    \E n \in 0..MaxSites :
        \E p \in [1..n -> Positions(BatchWebsites, Scenarios)] :
            /\ body = Body("list", [i \in 1..n |-> p[i].site])
            /\ world = [i \in 1..n |-> p[i].world]

InitSite ==
    \E p \in SitePositions :
        /\ body = Body("list", <<p.site>>)
        /\ world = <<p.world>>

InitNoList ==
    /\ body \in { Body(k, <<>>) : k \in {"badjson", "null", "nolist", "falsy", "notlist"} }
    /\ world = <<>>

Init ==
    /\ InitBatch \/ InitSite \/ InitNoList
    /\ clock = 0
    /\ pc = "request"
    /\ idx = 0
    /\ results = <<>>
    /\ startTime = 0
    /\ statusCheck = NoStatus
    /\ sslInfo = SslInvalid
    /\ ret = None
    /\ shot = None
    /\ live = 0
    /\ hist = <<>>
    /\ seen = <<>>
    /\ response = NoResponse
    /\ files = <<>>
    /\ peer = NoPeer
    /\ run = 1
    /\ first = NoFirst
    /\ browsers = <<>>
    /\ promise = NoPromise
    /\ page = Mounted

website == body.items[idx]
remote == world[idx]

\* A browser instance just launched by the capture of position i: alive
\* until closed, usedFor the positions whose pages it has opened.
Browser(i) == [site |-> i, alive |-> TRUE, usedFor |-> {}]

\* takeScreenshot: let browser, the instance this call launched.  Calls do
\* not overlap, so it is the one launched last.
browser == Len(browsers)

----------------------------------------------------------------------------
(* POST (route.ts:184-248) *)

\* The catch block of POST (route.ts:241-247).
Respond500 ==
    /\ response' = [status |-> 500, results |-> <<>>]
    /\ pc' = "responded"

\* request.json() rejects, or destructuring null throws (route.ts:186).
BodyThrows ==
    /\ pc = "request"
    /\ body.kind \in {"badjson", "null"}
    /\ Respond500
    /\ UNCHANGED <<page, files, peer, run, first, browsers, promise,
                   body, world, clock, idx, results, startTime, statusCheck,
                   sslInfo, ret, shot, live, hist, seen>>

\* !websites || !Array.isArray(websites) || websites.length === 0
NoWebsites(b) ==
    \/ b.kind \in {"nolist", "falsy"}
    \/ b.kind = "notlist"
    \/ b.kind = "list" /\ Len(b.items) = 0

\* route.ts:188-193
Reject ==
    /\ pc = "request"
    /\ body.kind \notin {"badjson", "null"}
    /\ NoWebsites(body)
    /\ response' = [status |-> 400, results |-> <<>>]
    /\ pc' = "responded"
    /\ UNCHANGED <<page, files, peer, run, first, browsers, promise,
                   body, world, clock, idx, results, startTime, statusCheck,
                   sslInfo, ret, shot, live, hist, seen>>

\* route.ts:195-198: results = [], the loop starts.
Accept ==
    /\ pc = "request"
    /\ body.kind \notin {"badjson", "null"}
    /\ ~NoWebsites(body)
    /\ results' = <<>>
    /\ seen' = [i \in 1..Len(body.items) |-> NotSeen]
    /\ idx' = 1
    /\ pc' = "loop"
    /\ UNCHANGED <<page, files, peer, run, first, browsers, promise,
                   body, world, clock, startTime, statusCheck, sslInfo, ret,
                   shot, live, hist, response>>

\* route.ts:199: website.url of a null element throws.
ElementThrows ==
    /\ pc = "loop"
    /\ idx <= Len(body.items)
    /\ website.isNull
    /\ Respond500
    /\ UNCHANGED <<page, files, peer, run, first, browsers, promise,
                   body, world, clock, idx, results, startTime, statusCheck,
                   sslInfo, ret, shot, live, hist, seen>>

\* route.ts:198-202, 89-102: the next website; checkWebsiteStatus is called
\* and issues its fetch.
CallCheckWebsiteStatus ==
    /\ pc = "loop"
    /\ idx <= Len(body.items)
    /\ ~website.isNull
    /\ startTime' = clock
    /\ hist' = Append(hist, Event("probe"))
    /\ pc' = "fetch"
    /\ UNCHANGED <<page, files, peer, run, first, browsers, promise,
                   body, world, clock, idx, results, statusCheck, sslInfo,
                   ret, shot, live, seen, response>>

\* route.ts:104-111: fetch resolved with a response.
FetchResolves ==
    /\ pc = "fetch"
    /\ remote.probe.kind \in {"ok", "notok"}
    /\ clock' = clock + remote.probe.lat
    /\ statusCheck' = StatusOfResponse(website.url, remote.probe.kind = "ok",
                                       clock' - startTime)
    /\ seen' = [seen EXCEPT ![idx].probe = Some(statusCheck')]
    /\ pc' = "inspect"
    /\ UNCHANGED <<page, files, peer, run, first, browsers, promise,
                   body, world, idx, results, startTime, sslInfo, ret, shot,
                   live, hist, response>>

\* route.ts:112-128: fetch rejected, aborted by the timer or otherwise.
FetchRejects ==
    /\ pc = "fetch"
    /\ remote.probe.kind \in {"abort", "fail"}
    /\ clock' = clock + remote.probe.lat
    /\ statusCheck' =
          StatusOfError(IF remote.probe.kind = "abort" THEN "AbortError" ELSE "TypeError",
                        remote.probe.msg, clock' - startTime)
    /\ seen' = [seen EXCEPT ![idx].probe = Some(statusCheck')]
    /\ pc' = "inspect"
    /\ UNCHANGED <<page, files, peer, run, first, browsers, promise,
                   body, world, idx, results, startTime, sslInfo, ret, shot,
                   live, hist, response>>

\* route.ts:33-37: getSSLCertificateInfo is called with a URL that is not
\* https and returns at once.
InspectNotHttps ==
    /\ pc = "inspect"
    /\ ~StartsWithHttps(website.url)
    /\ hist' = Append(hist, Event("inspect"))
    /\ sslInfo' = SslInvalid
    /\ seen' = [seen EXCEPT ![idx].ssl = Some(sslInfo')]
    /\ pc' = "launch"
    /\ UNCHANGED <<page, files, peer, run, first, browsers, promise,
                   body, world, clock, idx, results, startTime, statusCheck,
                   ret, shot, live, response>>

\* route.ts:39, 78-80: new URL(url) throws and the catch block returns.
InspectUrlThrows ==
    /\ pc = "inspect"
    /\ StartsWithHttps(website.url)
    /\ ~UrlParses(website.url)
    /\ hist' = Append(hist, Event("inspect"))
    /\ sslInfo' = SslInvalid
    /\ seen' = [seen EXCEPT ![idx].ssl = Some(sslInfo')]
    /\ pc' = "launch"
    /\ UNCHANGED <<page, files, peer, run, first, browsers, promise,
                   body, world, clock, idx, results, startTime, statusCheck,
                   ret, shot, live, response>>

\* route.ts:39-44: tls.connect() is issued.
InspectConnects ==
    /\ pc = "inspect"
    /\ StartsWithHttps(website.url)
    /\ UrlParses(website.url)
    /\ hist' = Append(Append(hist, Event("inspect")), Event("connect"))
    /\ pc' = "tls"
    /\ promise' = [NoPromise EXCEPT !.site = idx]
    /\ UNCHANGED <<page, files, peer, run, first, browsers,
                   body, world, clock, idx, results, startTime, statusCheck,
                   sslInfo, ret, shot, live, seen, response>>

\* route.ts:44-51: the handshake completed without a usable certificate.
TlsNoCertificate ==
    /\ pc = "tls"
    /\ remote.cert.kind \in {"nocert", "nodates"}
    /\ promise' = Resolve(promise, SslInvalid)
    /\ sslInfo' = Get(promise'.value)
    /\ seen' = [seen EXCEPT ![idx].ssl = Some(sslInfo')]
    /\ pc' = "launch"
    /\ UNCHANGED <<page, files, peer, run, first, browsers,
                   body, world, clock, idx, results, startTime, statusCheck,
                   ret, shot, live, hist, response>>

\* route.ts:53-66: the handshake completed with a certificate.
TlsCertificate ==
    /\ pc = "tls"
    /\ remote.cert.kind = "cert"
    /\ promise' = Resolve(promise, SslOfCert(clock, remote.cert.from, remote.cert.to))
    /\ sslInfo' = Get(promise'.value)
    /\ seen' = [seen EXCEPT ![idx].ssl = Some(sslInfo'), ![idx].certAt = Some(clock)]
    /\ pc' = "launch"
    /\ UNCHANGED <<page, files, peer, run, first, browsers,
                   body, world, clock, idx, results, startTime, statusCheck,
                   ret, shot, live, hist, response>>

\* route.ts:53-65: the certificate's dates do not parse; toISOString() of
\* an invalid Date throws inside the connect listener, after
\* socket.destroy() and before resolve(): the promise is never settled.
TlsInvalidDate ==
    /\ pc = "tls"
    /\ remote.cert.kind = "baddates"
    /\ pc' = "hung"
    /\ UNCHANGED <<page, files, peer, run, first, browsers, promise,
                   body, world, clock, idx, results, startTime, statusCheck,
                   sslInfo, ret, shot, live, hist, seen, response>>

\* route.ts:69-71
TlsError ==
    /\ pc = "tls"
    /\ remote.cert.kind = "error"
    /\ promise' = Resolve(promise, SslInvalid)
    /\ sslInfo' = Get(promise'.value)
    /\ seen' = [seen EXCEPT ![idx].ssl = Some(sslInfo')]
    /\ pc' = "launch"
    /\ UNCHANGED <<page, files, peer, run, first, browsers,
                   body, world, clock, idx, results, startTime, statusCheck,
                   ret, shot, live, hist, response>>

\* route.ts:73-76
TlsTimeout ==
    /\ pc = "tls"
    /\ remote.cert.kind = "timeout"
    /\ clock' = clock + IdleTimeoutMs
    /\ promise' = Resolve(promise, SslInvalid)
    /\ sslInfo' = Get(promise'.value)
    /\ seen' = [seen EXCEPT ![idx].ssl = Some(sslInfo')]
    /\ pc' = "launch"
    /\ UNCHANGED <<page, files, peer, run, first, browsers,
                   body, world, idx, results, startTime, statusCheck, ret,
                   shot, live, hist, response>>

\* route.ts:209, 131-135: takeScreenshot is called and launches a browser.
CaptureStarted == hist' = Append(hist, Event("capture"))

\* route.ts:135, 174-181, 209: chromium.launch() rejects; browser is still
\* undefined in the finally block, null is returned and becomes undefined.
LaunchFails ==
    /\ pc = "launch"
    /\ remote.capture.kind = "launchfail"
    /\ CaptureStarted
    /\ shot' = None
    /\ seen' = [seen EXCEPT ![idx].capture = Some(shot')]
    /\ pc' = "reconcile"
    /\ UNCHANGED <<page, files, peer, run, first, browsers, promise,
                   body, world, clock, idx, results, startTime, statusCheck,
                   sslInfo, ret, live, response>>

\* A faulty Launches: a browser launched for an earlier website is kept
\* and used again.
LaunchesPooled ==
    /\ pc = "launch"
    /\ remote.capture.kind # "launchfail"
    /\ CaptureStarted
    /\ live' = live + 1
    /\ pc' = "navigate"
    /\ browsers' = IF browsers = <<>> THEN <<Browser(idx)>>
                   ELSE [browsers EXCEPT ![browser].alive = TRUE]
    /\ UNCHANGED <<page, files, peer, run, first, promise,
                   body, world, clock, idx, results, startTime, statusCheck,
                   sslInfo, ret, shot, seen, response>>

\* route.ts:135-145
Launches ==
    /\ pc = "launch"
    /\ remote.capture.kind # "launchfail"
    /\ CaptureStarted
    /\ live' = live + 1
    /\ pc' = "navigate"
    /\ browsers' = Append(browsers, Browser(idx))
    /\ UNCHANGED <<page, files, peer, run, first, promise,
                   body, world, clock, idx, results, startTime, statusCheck,
                   sslInfo, ret, shot, seen, response>>

\* route.ts:147-161, 174-176: newPage, setViewportSize, goto or
\* waitForTimeout rejects; the catch block returns null.
NavigateFails ==
    /\ pc = "navigate"
    /\ remote.capture.kind = "navfail"
    /\ ret' = None
    /\ pc' = "close"
    /\ browsers' = [browsers EXCEPT ![browser].usedFor = @ \cup {idx}]
    /\ UNCHANGED <<page, files, peer, run, first, promise,
                   body, world, clock, idx, results, startTime, statusCheck,
                   sslInfo, shot, live, hist, seen, response>>

\* route.ts:147-161: the page loaded and the settle delay passed.
Navigates ==
    /\ pc = "navigate"
    /\ remote.capture.kind \in {"shotfail", "ok"}
    /\ clock' = clock + SettleMs
    /\ pc' = "screenshot"
    /\ browsers' = [browsers EXCEPT ![browser].usedFor = @ \cup {idx}]
    /\ UNCHANGED <<page, files, peer, run, first, promise,
                   body, world, idx, results, startTime, statusCheck, sslInfo,
                   ret, shot, live, hist, seen, response>>

\* route.ts:164-171, 174-176: page.screenshot() rejects.
ScreenshotFails ==
    /\ pc = "screenshot"
    /\ remote.capture.kind = "shotfail"
    /\ ret' = None
    /\ pc' = "close"
    /\ UNCHANGED <<page, files, peer, run, first, browsers, promise,
                   body, world, clock, idx, results, startTime, statusCheck,
                   sslInfo, shot, live, hist, seen, response>>

\* route.ts:164-173: the image is written and its path returned.
ScreenshotWritten ==
    /\ pc = "screenshot"
    /\ remote.capture.kind = "ok"
    /\ ret' = Some(ScreenshotPath(website.id, clock))
    /\ files' = Append(files, ScreenshotPath(website.id, clock))
    /\ pc' = "close"
    /\ UNCHANGED <<page, peer, run, first, browsers, promise,
                   body, world, clock, idx, results, startTime, statusCheck,
                   sslInfo, shot, live, hist, seen, response>>

\* A faulty CloseResolves: the browser is closed at the end of the try
\* block only, not after the catch block.
CloseAfterSuccessOnly ==
    /\ pc = "close"
    /\ remote.capture.closeOk
    /\ live' = IF IsSome(ret) THEN live - 1 ELSE live
    /\ shot' = ret
    /\ seen' = [seen EXCEPT ![idx].capture = Some(shot')]
    /\ ret' = None
    /\ pc' = "reconcile"
    /\ browsers' = [browsers EXCEPT ![browser].alive = ~IsSome(ret)]
    /\ UNCHANGED <<page, files, peer, run, first, promise,
                   body, world, clock, idx, results, startTime, statusCheck,
                   sslInfo, hist, response>>

\* route.ts:177-181, 209: browser.close() resolves and takeScreenshot
\* returns what the try or catch block decided.
CloseResolves ==
    /\ pc = "close"
    /\ remote.capture.closeOk
    /\ live' = live - 1
    /\ shot' = ret
    /\ seen' = [seen EXCEPT ![idx].capture = Some(shot')]
    /\ ret' = None
    /\ pc' = "reconcile"
    /\ browsers' = [browsers EXCEPT ![browser].alive = FALSE]
    /\ UNCHANGED <<page, files, peer, run, first, promise,
                   body, world, clock, idx, results, startTime, statusCheck,
                   sslInfo, hist, response>>

\* route.ts:177-181, 241-247: browser.close() rejects inside the finally
\* block; the rejection replaces the return value, leaves takeScreenshot
\* and is caught by POST.  Whether the browser process is gone is not known.
CloseThrows ==
    /\ pc = "close"
    /\ ~remote.capture.closeOk
    /\ live' \in {live, live - 1}
    /\ Respond500
    /\ browsers' = [browsers EXCEPT ![browser].alive = (live' = live)]
    /\ UNCHANGED <<page, files, peer, run, first, promise,
                   body, world, clock, idx, results, startTime, statusCheck,
                   sslInfo, ret, shot, hist, seen>>

\* A faulty Reconcile: a website whose capture failed gets no result.
ReconcileCapturedOnly ==
    /\ pc = "reconcile"
    /\ results' = IF IsSome(shot)
                  THEN Push(results, Result(website, statusCheck, sslInfo, shot))
                  ELSE results
    /\ idx' = idx + 1
    /\ statusCheck' = NoStatus
    /\ sslInfo' = SslInvalid
    /\ shot' = None
    /\ pc' = "loop"
    /\ UNCHANGED <<page, files, peer, run, first, browsers, promise,
                   body, world, clock, startTime, ret, live, hist, seen,
                   response>>

\* route.ts:211-238: the result is built and pushed; the loop moves on.
Reconcile ==
    /\ pc = "reconcile"
    /\ results' = Push(results, Result(website, statusCheck, sslInfo, shot))
    /\ idx' = idx + 1
    /\ statusCheck' = NoStatus
    /\ sslInfo' = SslInvalid
    /\ shot' = None
    /\ pc' = "loop"
    /\ UNCHANGED <<page, files, peer, run, first, browsers, promise,
                   body, world, clock, startTime, ret, live, hist, seen,
                   response>>

\* route.ts:240: the loop is over.
Respond200 ==
    /\ pc = "loop"
    /\ idx > Len(body.items)
    /\ response' = [status |-> 200, results |-> results]
    /\ pc' = "responded"
    /\ UNCHANGED <<page, files, peer, run, first, browsers, promise,
                   body, world, clock, idx, results, startTime, statusCheck,
                   sslInfo, ret, shot, live, hist, seen>>

Next ==
    \/ BodyThrows
    \/ Reject
    \/ Accept
    \/ ElementThrows
    \/ CallCheckWebsiteStatus
    \/ FetchResolves
    \/ FetchRejects
    \/ InspectNotHttps
    \/ InspectUrlThrows
    \/ InspectConnects
    \/ TlsNoCertificate
    \/ TlsCertificate
    \/ TlsInvalidDate
    \/ TlsError
    \/ TlsTimeout
    \/ LaunchFails
    \/ Launches
    \/ NavigateFails
    \/ Navigates
    \/ ScreenshotFails
    \/ ScreenshotWritten
    \/ CloseResolves
    \/ CloseThrows
    \/ Reconcile
    \/ Respond200

Spec == Init /\ [][Next]_vars

\* Every step of the handler is a callback or continuation the Node event
\* loop runs once its promise settles or its event arrives: a step that
\* stays possible is eventually taken.
FairSpec == Spec /\ WF_vars(Next)

----------------------------------------------------------------------------
(* Two requests at the same time *)

handler == <<body, world, clock, pc, idx, results, startTime, statusCheck,
             sslInfo, ret, shot, live, hist, seen, response>>

\* route.ts:164-171, in the handler of another request that is being
\* served meanwhile: its takeScreenshot for website id i reads Date.now()
\* and writes its image.
PeerScreenshotWritten ==
    /\ ~peer.written
    /\ \E i \in 1..MaxId :
          /\ files' = Append(files, ScreenshotPath(i, clock))
          /\ peer' = [written |-> TRUE, id |-> i]
    /\ UNCHANGED <<handler, run, first, browsers, promise, page>>

NextPair ==
    \/ Next
    \/ PeerScreenshotWritten

SpecPair == Init /\ [][NextPair]_vars

----------------------------------------------------------------------------
(* Socket events after an inspection has settled *)

\* What a listener run late passes to resolve(): { ssl_valid: false } from
\* the 'error' and the timeout listener (route.ts:70, 75) or from the
\* connect listener without a usable certificate (49), the dated value
\* from the connect listener (61-66).
LateValues == {SslInvalid, SslOfCert(clock, 0 - DayMs, DayMs)}

\* The three listeners stay registered (route.ts:44, 69, 73): another of
\* the socket's events arrives after the one that settled the promise, and
\* its listener calls resolve() again.
LateSocketEvent ==
    /\ promise.site # 0
    /\ IsSome(promise.value)
    /\ promise.late < MaxLate
    /\ \E v \in LateValues :
          promise' = [Resolve(promise, v) EXCEPT !.late = @ + 1]
    /\ UNCHANGED <<handler, files, peer, run, first, browsers, page>>

NextSocket ==
    \/ Next
    \/ LateSocketEvent

SpecSocket == Init /\ [][NextSocket]_vars

----------------------------------------------------------------------------
(* The same batch posted twice *)

\* The time between the first response and the second request.
Gaps == {0, DayMs}

\* The client posts the same body again after the first response; the
\* remote side answers as before.  Every local of POST starts afresh; the
\* clock, the files on disk and the browsers still alive carry over.
Rerun ==
    /\ pc = "responded"
    /\ run = 1
    /\ first' = [response |-> response, seen |-> seen]
    /\ run' = 2
    /\ \E gap \in Gaps : clock' = clock + gap
    /\ pc' = "request"
    /\ idx' = 0
    /\ results' = <<>>
    /\ startTime' = 0
    /\ statusCheck' = NoStatus
    /\ sslInfo' = SslInvalid
    /\ ret' = None
    /\ shot' = None
    /\ hist' = <<>>
    /\ seen' = <<>>
    /\ response' = NoResponse
    /\ promise' = NoPromise
    /\ UNCHANGED <<body, world, live, files, peer, browsers, page>>

NextRerun ==
    \/ Next
    \/ Rerun

SpecRerun == Init /\ [][NextRerun]_vars

----------------------------------------------------------------------------
(* The screenshots page (src/src/app/screenshots/page.tsx) *)

\* The lists of websites the page can load.
WebsiteLists == UNION { [1..n -> Websites] : n \in 0..MaxSites }

\* The placeholder entry of a website (page.tsx:60-65).
Checking(w) == [id |-> w.id, url |-> w.url, status |-> "checking", ssl_valid |-> FALSE]

\* The entries a 200 response can carry for the posted list ws: one per
\* website, with a status of ScreenshotResult (route.ts:12).
ResultLists(ws) ==
    { [i \in 1..Len(ws) |->
          [id |-> ws[i].id, url |-> ws[i].url, status |-> st[i],
           ssl_valid |-> st[i] = "up"]] :
      st \in [1..Len(ws) -> {"up", "down", "error"}] }

\* A faulty Disabled: the button is disabled for an empty list only.
DisabledWhenEmpty == Len(page.websites) = 0

\* disabled={loading || websites.length === 0} (page.tsx:140)
Disabled == page.loading \/ Len(page.websites) = 0

\* page.tsx:34-42: the websites are loaded.
FetchWebsitesResolves ==
    /\ page.at = "mounting"
    /\ \E ws \in WebsiteLists :
          page' = [page EXCEPT !.at = "idle", !.websites = ws]
    /\ UNCHANGED <<handler, files, peer, run, first, browsers, promise>>

\* page.tsx:41-46: loading the websites failed.
FetchWebsitesFails ==
    /\ page.at = "mounting"
    /\ page' = [page EXCEPT !.at = "idle", !.error = "Failed to load websites"]
    /\ UNCHANGED <<handler, files, peer, run, first, browsers, promise>>

\* page.tsx:139-140, 49-76: the button is clicked while enabled;
\* generateScreenshots runs up to its await of fetch().
GenerateScreenshots ==
    /\ ~Disabled
    /\ Len(page.posted) < MaxRuns
    /\ page' =
          IF Len(page.websites) = 0
          THEN [page EXCEPT !.error = "No websites to process. Add some URLs first."]
          ELSE [page EXCEPT
                  !.loading = TRUE,
                  !.error = "",
                  !.success = None,
                  !.screenshots = [i \in 1..Len(page.websites) |-> Checking(page.websites[i])],
                  !.inflight = @ + 1,
                  !.posted = Append(@, page.websites),
                  !.outcome = "none"]
    /\ UNCHANGED <<handler, files, peer, run, first, browsers, promise>>

\* page.tsx:77-83, 87-89: the response is ok and its JSON is the results.
ResponseOk ==
    /\ page.inflight > 0
    /\ \E rs \in ResultLists(page.posted[Len(page.posted)]) :
          page' = [page EXCEPT
                     !.screenshots = rs,
                     !.success = Some(Len(rs)),
                     !.loading = FALSE,
                     !.inflight = @ - 1,
                     !.outcome = "ok"]
    /\ UNCHANGED <<handler, files, peer, run, first, browsers, promise>>

\* page.tsx:69-80, 84-89: fetch() rejects ("network"), the response is not
\* ok ("http") or response.json() rejects ("json"); the catch block sets the
\* error banner.
ResponseFails ==
    /\ page.inflight > 0
    /\ \E k \in {"network", "http", "json"} :
          page' = [page EXCEPT
                     !.error = "Failed to generate screenshots. Make sure the API is working.",
                     !.loading = FALSE,
                     !.inflight = @ - 1,
                     !.outcome = k]
    /\ UNCHANGED <<handler, files, peer, run, first, browsers, promise>>

NextPage ==
    \/ FetchWebsitesResolves
    \/ FetchWebsitesFails
    \/ GenerateScreenshots
    \/ ResponseOk
    \/ ResponseFails

\* The page alone: the endpoint's answer is any of its possible ones.
InitPage == Init /\ body = Body("nolist", <<>>)

SpecPage == InitPage /\ [][NextPage]_vars

----------------------------------------------------------------------------
(* Properties *)

\* The list positions whose result has been pushed, and for position i the
\* pushed result and what the three calls returned for it.
Pushed == 1..Len(results)
ProbeOf(i) == Get(seen[i].probe)
InspectorOf(i) == Get(seen[i].ssl)
CaptureOf(i) == Get(seen[i].capture)
Captured(i) == IsSome(CaptureOf(i))

\* The posted body holds a non-empty list of website records.
ListOfWebsites ==
    /\ body.kind = "list"
    /\ Len(body.items) > 0
    /\ \A i \in 1..Len(body.items) : ~body.items[i].isNull

\* C1: a success response to a non-empty list has as many results as the
\* list has websites, and the i-th result carries the i-th website's id and
\* url.
C1_OrderPreserved ==
    response.status = 200 =>
        /\ Len(body.items) > 0
        /\ Len(response.results) = Len(body.items)
        /\ \A i \in 1..Len(body.items) :
              /\ response.results[i].id = body.items[i].id
              /\ response.results[i].url = body.items[i].url

C1_Witness ==
    /\ response.status = 200
    /\ Len(response.results) >= 2
    /\ response.results[1].id # response.results[2].id
    /\ response.results[1].url # response.results[2].url

\* C2: a request whose website list is empty, absent or not a list is
\* answered with status 400, and no probe, inspection or capture was
\* started for it.
C2_RejectedWithoutProbing ==
    (pc = "responded" /\ (body.kind # "list" \/ Len(body.items) = 0)) =>
        /\ response.status = 400
        /\ hist = <<>>

\* C3: the final status is the prober's status, except that it is up when
\* the capture succeeded; so a successful capture gives up and a failed
\* capture gives exactly the prober's status.
C3_FinalStatus ==
    \A i \in Pushed :
        /\ results[i].status =
              IF Captured(i) /\ ProbeOf(i).status # "up" THEN "up"
              ELSE ProbeOf(i).status
        /\ Captured(i) => results[i].status = "up"
        /\ ~Captured(i) => results[i].status = ProbeOf(i).status

C3_Witness ==
    \E i \in Pushed :
        /\ Captured(i)
        /\ ProbeOf(i).status = "down"
        /\ results[i].status = "up"

\* C4: for an https URL whose capture succeeded the final ssl_valid is
\* true, whatever the prober and the inspector returned.
C4_CaptureImpliesSSLValid ==
    \A i \in Pushed :
        (StartsWithHttps(results[i].url) /\ Captured(i)) => results[i].ssl_valid

C4_Witness ==
    \E i \in Pushed :
        /\ StartsWithHttps(results[i].url)
        /\ Captured(i)
        /\ ~InspectorOf(i).ssl_valid
        /\ ProbeOf(i).status = "error"
        /\ results[i].ssl_valid

\* The inspector read a certificate with both validity dates.
Determinate(i) == IsSome(seen[i].certAt)

\* C5: when the inspector read a certificate with both dates, the final
\* ssl_valid is the inspector's.
C5_DeterminateInspectorWins ==
    \A i \in Pushed :
        Determinate(i) => results[i].ssl_valid = InspectorOf(i).ssl_valid

\* The inspector read a certificate and the time of reading lies within
\* its validity window.
WithinWindow(i) ==
    /\ world[i].cert.kind = "cert"
    /\ IsSome(seen[i].certAt)
    /\ world[i].cert.from <= Get(seen[i].certAt)
    /\ Get(seen[i].certAt) <= world[i].cert.to

\* C6: a result has ssl_valid true only if the inspector read a
\* certificate within its validity window or the capture of an https URL
\* succeeded.
C6_SSLValidOnlyIf ==
    \A i \in Pushed :
        results[i].ssl_valid =>
            \/ WithinWindow(i)
            \/ Captured(i) /\ StartsWithHttps(results[i].url)

C6_Witness ==
    \E i \in Pushed :
        /\ results[i].ssl_valid
        /\ WithinWindow(i)
        /\ ~Captured(i)

\* C7: after a successful capture error_message is absent, also when the
\* prober reported one; after a failed capture it is the prober's message,
\* absent when the probe got a response.
C7_ErrorMessage ==
    \A i \in Pushed :
        /\ Captured(i) => results[i].error_message = None
        /\ ~Captured(i) => results[i].error_message = ProbeOf(i).error_message
        /\ (~Captured(i) /\ ProbeOf(i).status = "up") =>
              results[i].error_message = None

C7_Witness ==
    \E i \in Pushed :
        /\ Captured(i)
        /\ IsSome(ProbeOf(i).error_message)
        /\ results[i].error_message = None

\* C8 as stated: when the probe failed (error or down) and the capture
\* failed, the result has status error or down, no screenshot_path, and an
\* error_message of at most 100 characters.
C8_BothFail_Stated ==
    \A i \in Pushed :
        (ProbeOf(i).status \in {"error", "down"} /\ ~Captured(i)) =>
            /\ results[i].status \in {"error", "down"}
            /\ results[i].screenshot_path = None
            /\ IsSome(results[i].error_message)
            /\ Len(Get(results[i].error_message)) <= ErrLimit

\* C8 amended: when the probe failed and the capture failed, the result has
\* the prober's status and no screenshot_path; its error_message is present
\* with at most 100 characters when the status is error and absent when the
\* status is down.
C8_BothFail ==
    \A i \in Pushed :
        (ProbeOf(i).status \in {"error", "down"} /\ ~Captured(i)) =>
            /\ results[i].status = ProbeOf(i).status
            /\ results[i].screenshot_path = None
            /\ results[i].status = "error" =>
                  /\ IsSome(results[i].error_message)
                  /\ Len(Get(results[i].error_message)) <= ErrLimit
            /\ results[i].status = "down" => results[i].error_message = None

C8_Witness ==
    \E i \in Pushed :
        /\ ProbeOf(i).status = "error"
        /\ ~Captured(i)
        /\ Len(world[i].probe.msg) > ErrLimit
        /\ Len(Get(results[i].error_message)) = ErrLimit

\* A call of the current website is in flight.
InFlight == pc \in {"fetch", "tls", "navigate", "screenshot", "close"}

\* C9: websites are processed one at a time in list order: when a call for
\* the website at position i starts, exactly the results of the positions
\* before i have been pushed.
C9_Sequential ==
    /\ \A k \in 1..Len(hist) : hist[k].done = hist[k].site - 1
    /\ \A j, k \in 1..Len(hist) : j < k => hist[j].site <= hist[k].site
    /\ InFlight => Len(results) = idx - 1

C9_Witness ==
    /\ \E k \in 1..Len(hist) : hist[k].site = 2 /\ hist[k].op = "probe"
    /\ \E k \in 1..Len(hist) : hist[k].site = 1 /\ hist[k].op = "capture"
    /\ InFlight
    /\ idx = 2
    /\ Len(results) = 1
    /\ ~Captured(1)

\* C10: no failure of a website's probe, inspection or capture (teardown of
\* the browser included) aborts the batch: every answered request with a
\* non-empty list of website records gets the success response with one
\* result per website.
C10_NoSiteFailureAborts ==
    (pc = "responded" /\ ListOfWebsites) =>
        /\ response.status = 200
        /\ Len(response.results) = Len(body.items)

\* takeScreenshot has returned a value for the website at position i.
CaptureReturned(i) == IsSome(seen[i].capture)

\* Every call of takeScreenshot started so far has returned.
CapturesReturned ==
    \A k \in 1..Len(hist) : hist[k].op = "capture" => CaptureReturned(hist[k].site)

\* C11: whenever a call of takeScreenshot has returned (with a path, or
\* with null after a failed launch, navigation or screenshot), the browser
\* it launched is no longer running: no browser runs when every call
\* started has returned, and never more than the one of the call under way.
C11_BrowserClosed ==
    /\ CapturesReturned => live = 0
    /\ live \in {0, 1}

C11_Witness ==
    \E i \in 1..Len(seen) :
        /\ CaptureReturned(i)
        /\ ~Captured(i)
        /\ world[i].capture.kind \in {"navfail", "shotfail"}
        /\ CapturesReturned
        /\ live = 0

\* C12: a request gets one response: 400, 500 without any result, or 200
\* with the complete list after the last website was processed; a request
\* that has no response yet is still being worked on.
C12_OneResponse ==
    /\ response.status \in {0, 200, 400, 500}
    /\ (pc = "responded") = (response # NoResponse)
    /\ response.status = 200 =>
          /\ idx > Len(body.items)
          /\ response.results = results
          /\ Len(response.results) = Len(body.items)
    /\ response.status \in {400, 500} => response.results = <<>>
    /\ response = NoResponse => ENABLED Next

\* C13: ssl_days_remaining, when present, is the floor of (valid_to - now)
\* over one day, now being the time the certificate was read: negative for
\* an expired certificate, -1 for one that expired less than a day before.
C13_DaysRemainingFloor ==
    \A i \in Pushed :
        IsSome(results[i].ssl_days_remaining) =>
            LET d == Get(results[i].ssl_days_remaining)
                left == world[i].cert.to - Get(seen[i].certAt)
            IN  /\ IsSome(seen[i].certAt)
                /\ d * DayMs <= left
                /\ left < (d + 1) * DayMs
                /\ left < 0 => d < 0
                /\ (left < 0 /\ left > 0 - DayMs) => d = 0 - 1

C13_Witness ==
    \E i \in Pushed :
        /\ IsSome(results[i].ssl_days_remaining)
        /\ Get(seen[i].certAt) = world[i].cert.to + 1
        /\ Get(results[i].ssl_days_remaining) = 0 - 1

\* tls.connect() was issued for the website at position i, and its
\* handshake is over.
Connected(i) == \E k \in 1..Len(hist) : hist[k].op = "connect" /\ hist[k].site = i
HandshakeOver(i) == Connected(i) /\ ~(idx = i /\ pc = "tls")

\* C16: when the handshake ends without a certificate, with one without
\* dates, with one whose dates do not parse, with a socket error or with
\* the idle timeout, the inspector returns ssl_valid false without dates
\* and the batch goes on.
C16_InspectorFailures ==
    \A i \in 1..Len(seen) :
        (/\ world[i].cert.kind \in {"nocert", "nodates", "baddates", "error", "timeout"}
         /\ HandshakeOver(i)) =>
            /\ seen[i].ssl = Some(SslInvalid)
            /\ pc # "hung"

\* C14: no name is written twice into the screenshots directory, also not
\* by two requests served at the same time.
C14_NamesUnique ==
    \A j, k \in 1..Len(files) : j < k => files[j] # files[k]

\* Both runs of the same batch answered 200.
BothRan == run = 2 /\ response.status = 200 /\ first.response.status = 200

\* The time at which run 1 (k = 1) or run 2 (k = 2) read the certificate
\* of position i.
CertAt(k, i) == IF k = 1 THEN first.seen[i].certAt ELSE seen[i].certAt

\* Both runs read position i's certificate on the same side of each end of
\* its validity window.
SameSideOfWindow(i) ==
    LET t1 == Get(CertAt(1, i))
        t2 == Get(CertAt(2, i))
    IN  /\ (world[i].cert.from <= t1) = (world[i].cert.from <= t2)
        /\ (t1 <= world[i].cert.to) = (t2 <= world[i].cert.to)

\* Both runs read position i's certificate the same whole number of days
\* before (or after) its expiry.
SameDayCount(i) ==
    (world[i].cert.to - Get(CertAt(1, i))) \div DayMs
        = (world[i].cert.to - Get(CertAt(2, i))) \div DayMs

\* C15 as stated: against the same remote outcomes, both runs give every
\* website the same status, ssl_valid, ssl_expires, ssl_issued_date and
\* ssl_days_remaining, and different screenshot paths.
C15_Rerun_Stated ==
    BothRan =>
        \A i \in 1..Len(response.results) :
            LET a == first.response.results[i]
                b == response.results[i]
            IN  /\ a.status = b.status
                /\ a.ssl_valid = b.ssl_valid
                /\ a.ssl_expires = b.ssl_expires
                /\ a.ssl_issued_date = b.ssl_issued_date
                /\ a.ssl_days_remaining = b.ssl_days_remaining
                /\ IsSome(a.screenshot_path) =>
                       a.screenshot_path # b.screenshot_path

\* C15: against the same remote outcomes, both runs give every website
\* the same status, ssl_expires and ssl_issued_date; the same ssl_valid
\* when no end of the certificate's validity window passed between the
\* two readings; the same ssl_days_remaining when both readings are the
\* same whole number of days from the expiry; and, for a captured website,
\* different screenshot paths.
C15_Rerun ==
    BothRan =>
        /\ Len(response.results) = Len(first.response.results)
        /\ \A i \in 1..Len(response.results) :
            LET a == first.response.results[i]
                b == response.results[i]
            IN  /\ a.status = b.status
                /\ a.ssl_expires = b.ssl_expires
                /\ a.ssl_issued_date = b.ssl_issued_date
                /\ IsSome(CertAt(1, i)) = IsSome(CertAt(2, i))
                /\ IsSome(CertAt(1, i)) /\ SameSideOfWindow(i) =>
                       a.ssl_valid = b.ssl_valid
                /\ IsSome(CertAt(1, i)) /\ SameDayCount(i) =>
                       a.ssl_days_remaining = b.ssl_days_remaining
                /\ ~IsSome(CertAt(1, i)) =>
                       /\ a.ssl_valid = b.ssl_valid
                       /\ a.ssl_days_remaining = b.ssl_days_remaining
                /\ IsSome(a.screenshot_path) = IsSome(b.screenshot_path)
                /\ IsSome(a.screenshot_path) =>
                       a.screenshot_path # b.screenshot_path

\* Both runs captured an https website and read its certificate, the
\* second within the window and the same day count as the first.
C15_Witness ==
    /\ BothRan
    /\ \E i \in 1..Len(response.results) :
          /\ IsSome(CertAt(1, i))
          /\ SameSideOfWindow(i)
          /\ SameDayCount(i)
          /\ response.results[i].ssl_valid
          /\ IsSome(response.results[i].screenshot_path)
          /\ IsSome(first.response.results[i].screenshot_path)

\* checkWebsiteStatus has returned for position i.
Probed(i) == IsSome(seen[i].probe)

\* m is the first n characters of s (all of s when it is shorter).
IsPrefixOfLength(m, s, n) ==
    /\ Len(m) = Min(Len(s), n)
    /\ \A k \in 1..Len(m) : m[k] = s[k]

\* What the prober returns after a response or an abort, and the
\* response_time in every case: fetch() took world[i].probe.lat.
ProbeMapping(i) ==
    LET p == ProbeOf(i)
        w == world[i].probe
    IN  /\ w.kind = "ok" => p.status = "up" /\ p.error_message = None
        /\ w.kind = "notok" => p.status = "down" /\ p.error_message = None
        /\ w.kind = "abort" =>
              p.status = "error" /\ p.error_message = Some(RequestTimeout)
        /\ w.kind = "fail" => p.status = "error" /\ IsSome(p.error_message)
        /\ IsSome(p.response_time)
        /\ Get(p.response_time) = w.lat

\* C17 as stated: ok gives up and no message, not ok gives down and no
\* message, an abort gives error and 'Request timeout', any other failure
\* gives error and the first 100 characters of its description;
\* response_time is set in all four cases.
C17_ProberMapping_Stated ==
    \A i \in 1..Len(seen) :
        Probed(i) =>
            /\ ProbeMapping(i)
            /\ world[i].probe.kind = "fail" =>
                  IsPrefixOfLength(Get(ProbeOf(i).error_message),
                                   world[i].probe.msg, ErrLimit)

\* C17: as stated, except that a failure other than an abort gives the
\* first 100 characters of its description when it has one, and
\* 'Connection failed' when the description is empty.
C17_ProberMapping ==
    \A i \in 1..Len(seen) :
        Probed(i) =>
            /\ ProbeMapping(i)
            /\ (world[i].probe.kind = "fail" /\ Len(world[i].probe.msg) > 0) =>
                  IsPrefixOfLength(Get(ProbeOf(i).error_message),
                                   world[i].probe.msg, ErrLimit)
            /\ (world[i].probe.kind = "fail" /\ Len(world[i].probe.msg) = 0) =>
                  ProbeOf(i).error_message = Some(ConnectionFailed)

\* The prober returned after a failure whose description is longer than
\* 100 characters, cut to 100.
C17_Witness ==
    \E i \in 1..Len(seen) :
        /\ Probed(i)
        /\ world[i].probe.kind = "fail"
        /\ Len(world[i].probe.msg) > ErrLimit
        /\ Len(Get(ProbeOf(i).error_message)) = ErrLimit
        /\ IsSome(ProbeOf(i).response_time)

\* C18: in every result ssl_expires, ssl_issued_date and
\* ssl_days_remaining are what the inspector returned (absent when it
\* returned none, also when ssl_valid was overridden to true) and
\* response_time is what the prober measured, whether the capture succeeded
\* or failed; id and url are the website's.
C18_CaptureFrame ==
    \A i \in Pushed :
        /\ results[i].ssl_expires = InspectorOf(i).ssl_expires
        /\ results[i].ssl_issued_date = InspectorOf(i).ssl_issued_date
        /\ results[i].ssl_days_remaining = InspectorOf(i).ssl_days_remaining
        /\ results[i].response_time = ProbeOf(i).response_time
        /\ IsSome(results[i].response_time)
        /\ results[i].id = body.items[i].id
        /\ results[i].url = body.items[i].url

\* A result whose ssl_valid the capture overrode to true while the
\* inspector returned no dates.
C18_Witness ==
    \E i \in Pushed :
        /\ Captured(i)
        /\ ~InspectorOf(i).ssl_valid
        /\ results[i].ssl_valid
        /\ InspectorOf(i).ssl_expires = None
        /\ results[i].ssl_expires = None
        /\ results[i].ssl_days_remaining = None

\* C19: every accepted batch eventually gets its response.
C19_Terminates == (pc = "loop") ~> (pc = "responded")

\* The website at position i is there and its URL is not https.
NotEncrypted(i) ==
    /\ ~body.items[i].isNull
    /\ body.items[i].url.scheme # "https://"

\* C20: for a website whose URL is not https the inspector opens no
\* connection and returns { ssl_valid: false }, and the result has
\* ssl_valid false and no ssl_expires, ssl_issued_date or
\* ssl_days_remaining, whatever the probe and the capture gave.
C20_NotEncrypted ==
    \A i \in 1..Len(seen) :
        NotEncrypted(i) =>
            /\ ~Connected(i)
            /\ IsSome(seen[i].ssl) => InspectorOf(i) = SslInvalid
            /\ i \in Pushed =>
                  /\ ~results[i].ssl_valid
                  /\ results[i].ssl_expires = None
                  /\ results[i].ssl_issued_date = None
                  /\ results[i].ssl_days_remaining = None

\* The result of an http website that answered the probe and was captured.
C20_Witness ==
    \E i \in Pushed :
        /\ NotEncrypted(i)
        /\ ProbeOf(i).status = "up"
        /\ Captured(i)
        /\ ~results[i].ssl_valid

\* Positions i and j of one batch agree on the URL, on what the inspector
\* returned and on whether the capture succeeded.
SameButProbe(i, j) ==
    /\ body.items[i].url = body.items[j].url
    /\ InspectorOf(i) = InspectorOf(j)
    /\ Captured(i) = Captured(j)

\* C21: two websites processed with the same URL, the same inspector
\* result and the same capture outcome get the same final ssl_valid, also
\* when the prober's ssl_valid differs between them.
C21_ProberSSLIgnored ==
    \A i, j \in Pushed :
        SameButProbe(i, j) => results[i].ssl_valid = results[j].ssl_valid

\* Two such websites of which only one has the prober's ssl_valid true,
\* and whose final ssl_valid is false.
C21_Witness ==
    \E i, j \in Pushed :
        /\ SameButProbe(i, j)
        /\ ProbeOf(i).ssl_valid
        /\ ~ProbeOf(j).ssl_valid
        /\ ~results[i].ssl_valid
        /\ ~results[j].ssl_valid

\* The browser instances that are alive.
Alive == { b \in 1..Len(browsers) : browsers[b].alive }

\* C22: every browser instance opens pages for the website whose capture
\* launched it and for no other, no two instances belong to the same
\* capture, and at most one instance is alive at any time: the one of the
\* capture in progress (or the one whose close() rejected, ending the run).
C22_OwnBrowser ==
    /\ \A b \in 1..Len(browsers) : browsers[b].usedFor \subseteq {browsers[b].site}
    /\ \A b, c \in 1..Len(browsers) :
          b < c => browsers[b].site < browsers[c].site
    /\ Cardinality(Alive) <= 1
    /\ live = Cardinality(Alive)
    /\ \A b \in Alive :
          /\ browsers[b].site = idx
          /\ pc \in {"navigate", "screenshot", "close"} \/ response.status = 500

\* The second website's capture is using its own browser after the first
\* website's browser was used and closed.
C22_Witness ==
    /\ Len(browsers) = 2
    /\ browsers[1].usedFor = {1}
    /\ ~browsers[1].alive
    /\ browsers[2].usedFor = {2}
    /\ browsers[2].alive
    /\ pc = "screenshot"

\* How many times the call op was started for list position i.
Calls(op, i) ==
    Cardinality({ k \in 1..Len(hist) : hist[k].op = op /\ hist[k].site = i })

\* All three calls for position i were started once and have returned.
AllThreeOnce(i) ==
    /\ Calls("probe", i) = 1 /\ Probed(i)
    /\ Calls("inspect", i) = 1 /\ IsSome(seen[i].ssl)
    /\ Calls("capture", i) = 1 /\ CaptureReturned(i)

\* No call is started twice for a position, the capture is started
\* whatever the prober returned, and reconciliation of a position starts
\* only after its three calls have returned.
OnceAndBeforeReconcile ==
    /\ \A i \in 1..Len(seen) :
          /\ \A op \in {"probe", "inspect", "capture"} : Calls(op, i) <= 1
          /\ IsSome(seen[i].ssl) => Calls("capture", i) = 1 \/ (idx = i /\ pc = "launch")
          /\ (i \in Pushed \/ (idx = i /\ pc = "reconcile")) => AllThreeOnce(i)

\* C23: for every website of an accepted batch the prober, the inspector
\* and the capturer each run exactly once, the capture also after a probe
\* that reported down or error, and the website is reconciled only after
\* all three have returned.
C23_EachOnceThenReconcile ==
    /\ OnceAndBeforeReconcile
    /\ (pc = "responded" /\ ListOfWebsites) =>
          \A i \in 1..Len(body.items) : i \in Pushed /\ AllThreeOnce(i)

\* C24: when the inspector read a certificate with parseable dates at time
\* now, it returns ssl_valid true exactly when valid_from <= now <=
\* valid_to; so a result of the inspector with ssl_valid true has no
\* negative ssl_days_remaining, and one with negative ssl_days_remaining
\* has ssl_valid false.
C24_ValidWithinWindow ==
    \A i \in 1..Len(seen) :
        IsSome(seen[i].certAt) =>
            LET now == Get(seen[i].certAt)
                ssl == InspectorOf(i)
            IN  /\ ssl.ssl_valid =
                      (world[i].cert.from <= now /\ now <= world[i].cert.to)
                /\ IsSome(ssl.ssl_days_remaining)
                /\ ssl.ssl_valid => Get(ssl.ssl_days_remaining) >= 0
                /\ Get(ssl.ssl_days_remaining) < 0 => ~ssl.ssl_valid

\* A certificate read at the very millisecond of its valid_to: valid, with
\* 0 days remaining.
C24_Witness ==
    \E i \in 1..Len(seen) :
        /\ IsSome(seen[i].certAt)
        /\ Get(seen[i].certAt) = world[i].cert.to
        /\ InspectorOf(i).ssl_valid
        /\ Get(InspectorOf(i).ssl_days_remaining) = 0

\* What the first socket event of position i's inspection stands for.
FirstOutcome(i) ==
    IF world[i].cert.kind = "cert" /\ IsSome(seen[i].certAt)
    THEN SslOfCert(Get(seen[i].certAt), world[i].cert.from, world[i].cert.to)
    ELSE SslInvalid

\* C25: once the first socket event of an inspection has occurred, the
\* inspection has returned exactly one value, the one of that event; later
\* events of the socket neither change the value returned, nor the result
\* built from it, nor settle the promise a second time.
C25_FirstEventWins ==
    \A i \in 1..Len(seen) :
        HandshakeOver(i) =>
            /\ seen[i].ssl = Some(FirstOutcome(i))
            /\ promise.site = i =>
                  /\ promise.value = seen[i].ssl
                  /\ promise.settles = 1
            /\ (idx = i /\ pc \in {"launch", "navigate", "screenshot", "close", "reconcile"}) =>
                  sslInfo = FirstOutcome(i)
            /\ i \in Pushed =>
                  /\ results[i].ssl_expires = FirstOutcome(i).ssl_expires
                  /\ results[i].ssl_issued_date = FirstOutcome(i).ssl_issued_date
                  /\ results[i].ssl_days_remaining = FirstOutcome(i).ssl_days_remaining

\* A run of generateScreenshots has finished: a request was sent and none
\* is outstanding.
RunFinished == Len(page.posted) > 0 /\ page.inflight = 0

\* C26: once a run of generateScreenshots has finished and loading is
\* false again, no displayed entry has the placeholder status 'checking',
\* however the request ended.
C26_NoStalePlaceholder ==
    (RunFinished /\ ~page.loading) =>
        \A k \in 1..Len(page.screenshots) : page.screenshots[k].status # "checking"

\* C27: loading is true exactly while a batch request is outstanding and
\* false after every way a run ends; at most one request is outstanding,
\* and no request was sent with an empty website list.
C27_LoadingGuardsRequest ==
    /\ page.loading = (page.inflight > 0)
    /\ page.inflight \in {0, 1}
    /\ page.outcome # "none" => ~page.loading
    /\ \A k \in 1..Len(page.posted) : Len(page.posted[k]) > 0
    /\ Len(page.websites) = 0 => Len(page.posted) = 0

\* The second run has ended with a network failure: nothing is
\* outstanding and loading is false again.
C27_Witness ==
    /\ Len(page.posted) = 2
    /\ page.outcome = "network"
    /\ page.inflight = 0
    /\ ~page.loading

====
